---- MODULE Spec2Model ----
(***************************************************************************)
(* Model of many_language_final_sequence.py: a LangGraph pipeline of five  *)
(* nodes (analyze_project, check_existing_code, add_function, add_tests,   *)
(* review_and_pr) over a ProjectState record, run against a git working    *)
(* copy.                                                                   *)
(*                                                                         *)
(* Strings the code parses are sequences of one-character strings, so that *)
(* strip, lower, upper, split, splitext, endswith and the regular          *)
(* expressions are computed and not assumed.                               *)
(***************************************************************************)
EXTENDS Integers, Sequences, FiniteSets, TLC

\* ------------------------------------------------------------------------
\* Python string operations, on sequences of characters
\* ------------------------------------------------------------------------

\* str.strip() removes these (the whitespace of the modelled alphabet)
Whitespace == {" ", "\n"}

\* .strip("'\"") at line 151 removes these
QuoteChars == {"'", "\""}

Digits == {"0", "1", "2", "3", "4", "5", "6", "7", "8", "9"}

DigitValue(c) ==
    CASE c = "0" -> 0 [] c = "1" -> 1 [] c = "2" -> 2 [] c = "3" -> 3
      [] c = "4" -> 4 [] c = "5" -> 5 [] c = "6" -> 6 [] c = "7" -> 7
      [] c = "8" -> 8 [] c = "9" -> 9

\* str.lower() on one character (the letters of the modelled alphabet that
\* have an upper-case form)
LowerChar(c) ==
    CASE c = "A" -> "a" [] c = "E" -> "e" [] c = "J" -> "j" [] c = "M" -> "m"
      [] c = "N" -> "n" [] c = "O" -> "o" [] c = "P" -> "p" [] c = "R" -> "r"
      [] c = "S" -> "s" [] c = "T" -> "t" [] c = "Y" -> "y"
      [] OTHER -> c

\* str.upper() on one character
UpperChar(c) ==
    CASE c = "a" -> "A" [] c = "e" -> "E" [] c = "j" -> "J" [] c = "m" -> "M"
      [] c = "n" -> "N" [] c = "o" -> "O" [] c = "p" -> "P" [] c = "r" -> "R"
      [] c = "s" -> "S" [] c = "t" -> "T" [] c = "y" -> "Y"
      [] OTHER -> c

Lower(s) == [i \in 1..Len(s) |-> LowerChar(s[i])]

Upper(s) == [i \in 1..Len(s) |-> UpperChar(s[i])]

\* s.strip(chars): drop the longest prefix and suffix made of chars
Strip(s, chars) ==
    LET keep == {i \in 1..Len(s) : s[i] \notin chars}
    IN  IF keep = {} THEN <<>>
        ELSE LET lo == CHOOSE i \in keep : \A j \in keep : i <= j
                 hi == CHOOSE i \in keep : \A j \in keep : j <= i
             IN  SubSeq(s, lo, hi)

\* s.startswith(p), s.endswith(p), p in s
StartsWith(s, p) == Len(p) <= Len(s) /\ SubSeq(s, 1, Len(p)) = p

EndsWith(s, p) == Len(p) <= Len(s) /\ SubSeq(s, Len(s) - Len(p) + 1, Len(s)) = p

Contains(s, p) ==
    \E i \in 1..(Len(s) - Len(p) + 1) : SubSeq(s, i, i + Len(p) - 1) = p

\* s.split(sep, 1) for a one-character sep that occurs in s: the text before
\* the first sep and the text after it
SplitFirst(s, sep) ==
    LET i == CHOOSE k \in 1..Len(s) : s[k] = sep /\ \A j \in 1..(k - 1) : s[j] # sep
    IN  <<SubSeq(s, 1, i - 1), SubSeq(s, i + 1, Len(s))>>

\* os.path.splitext on a name without separators: the extension starts at
\* the last dot, unless only dots precede it
Splitext(name) ==
    LET dots == {i \in 1..Len(name) : name[i] = "."}
    IN  IF dots = {} THEN <<name, <<>>>>
        ELSE LET d == CHOOSE i \in dots : \A j \in dots : j <= i
             IN  IF \E k \in 1..(d - 1) : name[k] # "."
                 THEN <<SubSeq(name, 1, d - 1), SubSeq(name, d, Len(name))>>
                 ELSE <<name, <<>>>>

\* ------------------------------------------------------------------------
\* Language mappings (lines 33-48, 100-102)
\* ------------------------------------------------------------------------

DotPy == <<".", "p", "y">>

DotJs == <<".", "j", "s">>

DotTs == <<".", "t", "s">>

DotJava == <<".", "j", "a", "v", "a">>

DotGo == <<".", "g", "o">>

DotRb == <<".", "r", "b">>

DotTxt == <<".", "t", "x", "t">>

Python == <<"p", "y", "t", "h", "o", "n">>

Javascript == <<"j", "a", "v", "a", "s", "c", "r", "i", "p", "t">>

Typescript == <<"t", "y", "p", "e", "s", "c", "r", "i", "p", "t">>

Java == <<"j", "a", "v", "a">>

Go == <<"g", "o">>

Ruby == <<"r", "u", "b", "y">>

Unknown == <<"u", "n", "k", "n", "o", "w", "n">>

\* EXT_LANG_MAP, in the order of the dict literal
EXT_LANG_MAP ==
    << <<DotPy, Python>>, <<DotJs, Javascript>>, <<DotTs, Typescript>>,
       <<DotJava, Java>>, <<DotGo, Go>>, <<DotRb, Ruby>> >>

ExtKeys == {EXT_LANG_MAP[i][1] : i \in 1..Len(EXT_LANG_MAP)}

\* EXT_LANG_MAP.get(ext, default)
ExtLangGet(ext, default) ==
    IF ext \in ExtKeys
    THEN EXT_LANG_MAP[CHOOSE i \in 1..Len(EXT_LANG_MAP) : EXT_LANG_MAP[i][1] = ext][2]
    ELSE default

\* next((e for e, l in EXT_LANG_MAP.items() if l == lang), ".txt"), line 241
ExtForLang(lang) ==
    LET hits == {i \in 1..Len(EXT_LANG_MAP) : EXT_LANG_MAP[i][2] = lang}
    IN  IF hits = {} THEN DotTxt
        ELSE EXT_LANG_MAP[CHOOSE i \in hits : \A j \in hits : i <= j][1]

detect_language_for_file(fname) ==
    ExtLangGet(Lower(Splitext(fname)[2]), Unknown)

\* ------------------------------------------------------------------------
\* The working copy: directories and files
\* ------------------------------------------------------------------------
\* A directory is the sequence of directory names below the repository
\* path; a file path is <<directory, name>>; a tree is
\* [dirs |-> set of directories, files |-> function from paths to contents];
\* a content is the sequence of the texts written to the file.

RootDir == <<>>

GitDirName == <<".", "g", "i", "t">>

NoFiles == [p \in {} |-> <<>>]

NoTree == [dirs |-> {}, files |-> NoFiles]

IsPrefix(a, b) == Len(a) <= Len(b) /\ SubSeq(b, 1, Len(a)) = a

\* os.listdir(folder): the names of the files and directories in folder
ListDir(tree, folder) ==
    {p[2] : p \in {q \in DOMAIN tree.files : q[1] = folder}}
      \cup {d[Len(d)] : d \in {e \in tree.dirs : Len(e) = Len(folder) + 1 /\ IsPrefix(folder, e)}}

\* the directories directly under folder (os.path.isdir, line 113)
SubFolders(tree, folder) ==
    {d \in tree.dirs : Len(d) = Len(folder) + 1 /\ IsPrefix(folder, d)}

\* os.walk(folder): every file in folder or below it
Walk(tree, folder) == {p \in DOMAIN tree.files : IsPrefix(folder, p[1])}

\* the files the loops at lines 180-186, 230-237 and 281-288 can stop at:
\* a file whose lower-cased name equals the lower-cased file_name, in a
\* directory none of whose ancestors holds such a file (os.walk is top-down;
\* the order of the entries of one directory is the file system's)
FirstMatches(tree, folder, file_name) ==
    LET hits == {p \in Walk(tree, folder) : Lower(p[2]) = Lower(file_name)}
    IN  {p \in hits : ~ \E q \in hits : q[1] # p[1] /\ IsPrefix(q[1], p[1])}

\* content after open(path, "w") and the writes in chunks: what the file
\* held is lost
AppendTo_Truncate(files, path, chunks) ==
    [p \in DOMAIN files \cup {path} |-> IF p = path THEN chunks ELSE files[p]]

\* content after open(path, "a") and the writes in chunks; the file is
\* created when it does not exist
AppendTo(files, path, chunks) ==
    [p \in DOMAIN files \cup {path} |->
        IF p = path
        THEN (IF path \in DOMAIN files THEN files[path] ELSE <<>>) \o chunks
        ELSE files[p]]

\* ------------------------------------------------------------------------
\* Inputs: repositories, model responses, console answers
\* ------------------------------------------------------------------------

NameAPyUpper == <<"A", ".", "P", "Y">>

NameRMd == <<"r", ".", "m", "d">>

NameAJs == <<"a", ".", "j", "s">>

NameAJsUpper == <<"A", ".", "J", "S">>

NameTestPy == <<"t", "e", "s", "t", "_", "a", ".", "p", "y">>

NameHead == <<"H", "E", "A", "D">>

DirP == <<"p">>

Orig == <<"orig">>

\* a repository with a source file and a readme in its root
TreeFlat ==
    [dirs |-> {RootDir},
     files |-> (<<RootDir, NameAPyUpper>> :> Orig) @@ (<<RootDir, NameRMd>> :> Orig)
                 @@ (<<RootDir, NameTestPy>> :> Orig)]

\* an empty repository
TreeEmpty == [dirs |-> {RootDir}, files |-> NoFiles]

\* a repository whose sources are in one folder, two of them with names
\* that differ in case only
TreeNested ==
    [dirs |-> {RootDir, <<DirP>>},
     files |-> (<<<<DirP>>, NameAJs>> :> Orig) @@ (<<<<DirP>>, NameAJsUpper>> :> Orig)]

Trees == {TreeFlat, TreeEmpty, TreeNested}

\* the tree with the directory git keeps in the root of a working copy
WithGit(tree) ==
    [dirs |-> tree.dirs \cup {<<GitDirName>>},
     files |-> (<<<<GitDirName>>, NameHead>> :> <<"ref">>) @@ tree.files]

\* the branch names the operator types at line 420; the empty name is the
\* Enter key alone
BranchNames == {"feat", ""}

\* response.choices[0].message.content of the Analyzer's request
AnalyzerResponses ==
    { <<"a", ".", "p", "y", "|", "p", "y", "t", "h", "o", "n">>,
      <<"'", "a", ".", "p", "y", "'", "\n">>,
      <<"r", ".", "m", "d", "|", "p", "y", "t", "h", "o", "n">>,
      <<>>,
      <<"\"", "\"">>,
      <<"|", "p", "y", "t", "h", "o", "n">>,
      <<"m", ".", "r", "s", "|", "r", "u", "s", "t">>,
      <<"a", ".", "j", "s", " ", "|", " ", "g", "o">>,
      <<"a", "|", "p", "y", "t", "h", "o", "n">>,
      <<"a", "|", "j", "a", "v", "a", "s", "c", "r", "i", "p", "t">>,
      <<"t", ".", "p", "y", "|", "P", "y", "t", "h", "o", "n">> }

\* content of the answer to the Checker's question
CheckerResponses ==
    { <<"Y", "E", "S">>, <<"y", "e", "s", ".">>, <<"N", "O">>, <<>> }

\* the backquote character, U+0060 (a TLA+ string cannot hold it)
BQ == "bq"

\* content of the answers to the Augmenters' requests
CodeResponses ==
    { <<"f", "(", ")">>,
      <<BQ, BQ, BQ, "p", "y", "\n", "f", "(", ")", BQ, BQ, BQ>>,
      <<BQ, BQ, BQ, "f", "(", ")", BQ, BQ, BQ, "\n">> }

\* content of the answers to the Test Augmenter's request
TestResponses ==
    { <<"t", "(", ")">>,
      <<BQ, BQ, BQ, "\n", "t", "(", ")", "\n", BQ, BQ, BQ>> }

\* the characters a review answer is made of, and its greatest length
ScoreChars == {"8", "0", "x"}

MaxScoreLen == 2

ScoreResponses ==
    UNION {[1..n -> ScoreChars] : n \in 0..MaxScoreLen}

\* what the operator types at the merge prompt
MergeAnswers ==
    { <<"y", "e", "s">>, <<"y">>, <<" ", "Y", "E", "S", "\n">>, <<"n", "o">>,
      <<>>, <<"y", "e", "s", "!">> }

\* a call that raises instead of returning (transport error of the model
\* service)
Raised == <<"raised">>

\* exit codes of a subprocess
ExitCodes == {0, 1}

\* Checked with check=False: the exit code is not looked at
Checked_Unchecked(rc, next) == next

\* subprocess.run(..., check=True) raises CalledProcessError on a non-zero
\* exit code: the statement the run is at after the call
Checked(rc, next) == IF rc = 0 THEN next ELSE "aborted"

\* ------------------------------------------------------------------------
\* Parsing of the model's responses
\* ------------------------------------------------------------------------

\* get_gpt_response returns message.content.strip() (line 28)
get_gpt_response(content) == Strip(content, Whitespace)

\* lines 151-157: the file name and the language read from the response
ParseRecommendation(content) ==
    LET resp == Strip(Strip(get_gpt_response(content), Whitespace), QuoteChars)
    IN  IF \E i \in 1..Len(resp) : resp[i] = "|"
        THEN LET parts == SplitFirst(resp, "|")
             IN  [recommended_file |-> Strip(parts[1], Whitespace),
                  lang |-> Strip(parts[2], Whitespace)]
        ELSE [recommended_file |-> resp, lang |-> detect_language_for_file(resp)]

\* the answer compared with "YES" instead of searched for it
AnswerIsYes_Exact(content) ==
    Upper(Strip(get_gpt_response(content), Whitespace)) = <<"Y", "E", "S">>

\* lines 211-212: "YES" in answer, answer the upper-cased response
AnswerIsYes(content) ==
    Contains(Upper(Strip(get_gpt_response(content), Whitespace)), <<"Y", "E", "S">>)

\* \w of the regular expressions: letters, digits and the underscore
WordChars ==
    {"a", "b", "c", "d", "e", "f", "g", "h", "i", "j", "k", "l", "m", "n", "o",
     "p", "q", "r", "s", "t", "u", "v", "w", "x", "y", "z",
     "A", "E", "J", "M", "N", "O", "P", "R", "S", "T", "Y", "_"} \cup Digits

\* the first index at or after from whose character is not in chars
RunEnd(s, from, chars) ==
    LET stops == {i \in from..Len(s) : s[i] \notin chars}
    IN  IF stops = {} THEN Len(s) + 1 ELSE CHOOSE i \in stops : \A j \in stops : i <= j

\* lines 258-259 and 323-324: group 1 of the first match of
\* ```(?:\w+)?\s*(.*?)``` stripped, or the stripped response without a match
ExtractCode(content) ==
    LET response == get_gpt_response(content)
        fences == {i \in 1..(Len(response) - 2) :
                      response[i] = BQ /\ response[i + 1] = BQ /\ response[i + 2] = BQ}
        opens == {i \in fences : \E j \in fences : j >= i + 3}
    IN  IF opens = {} THEN Strip(response, Whitespace)
        ELSE LET i == CHOOSE a \in opens : \A b \in opens : a <= b
                 w == RunEnd(response, i + 3, WordChars)
                 k == RunEnd(response, w, Whitespace)
                 closes == {j \in fences : j >= k}
                 j == CHOOSE a \in closes : \A b \in closes : a <= b
             IN  Strip(SubSeq(response, k, j - 1), Whitespace)

RECURSIVE IntOf(_)
\* int() of a sequence of digits
IntOf(ds) ==
    IF ds = <<>> THEN 0
    ELSE 10 * IntOf(SubSeq(ds, 1, Len(ds) - 1)) + DigitValue(ds[Len(ds)])

\* lines 370-373: the first run of digits of the response as a number, 0
\* when the response has no digit
ParseScore(content) ==
    LET response == get_gpt_response(content)
        ds == {i \in 1..Len(response) : response[i] \in Digits}
    IN  IF ds = {} THEN 0
        ELSE LET a == CHOOSE i \in ds : \A j \in ds : i <= j
                 b == RunEnd(response, a, Digits)
             IN  IntOf(SubSeq(response, a, b - 1))

\* line 376
ScoreThreshold == 80

\* IsAffirmative testing the first letter only
IsAffirmative_Prefix(typed) ==
    StartsWith(Lower(Strip(typed, Whitespace)), <<"y">>)

\* lines 382-383: merge_input in ("yes", "y")
IsAffirmative(typed) ==
    Lower(Strip(typed, Whitespace)) \in {<<"y", "e", "s">>, <<"y">>}

\* ------------------------------------------------------------------------
\* The graph (lines 88-95, 394-410)
\* ------------------------------------------------------------------------

\* the keys of ProjectState: the graph keeps one channel per key, hands a
\* node the channels' values and takes from the dict a node returns the
\* values of these keys only
Channels ==
    {"folder_path", "requirement", "recommendation", "generated_code",
     "test_file", "generated_tests", "language"}

\* the state after a node returned the dict ret
ApplyWrites(old, ret) ==
    [k \in Channels |-> IF k \in DOMAIN ret THEN ret[k] ELSE old[k]]

\* d.get("exists_ok") as a condition: None (the key is absent) is false
GetExistsOk(d) == IF "exists_ok" \in DOMAIN d THEN d["exists_ok"] ELSE FALSE

\* inputs["exists_ok"] = v
SetExistsOk(d, v) ==
    [k \in DOMAIN d \cup {"exists_ok"} |-> IF k = "exists_ok" THEN v ELSE d[k]]

\* the nodes in the order the edges join them
Order ==
    <<"analyze_project", "check_existing_code", "add_function", "add_tests",
      "review_and_pr">>

\* NextNode with the edge from add_function drawn to review_and_pr
NextNode_SkipTests(node, st) ==
    CASE node = "analyze_project" -> "check_existing_code"
      [] node = "check_existing_code" ->
            IF GetExistsOk(st) THEN "__end__" ELSE "add_function"
      [] node = "add_function" -> "review_and_pr"
      [] node = "add_tests" -> "review_and_pr"
      [] node = "review_and_pr" -> "__end__"

\* the node after node, the graph's state being st; "__end__" ends the run
NextNode(node, st) ==
    CASE node = "analyze_project" -> "check_existing_code"
      [] node = "check_existing_code" ->
            IF GetExistsOk(st) THEN "__end__" ELSE "add_function"
      [] node = "add_function" -> "add_tests"
      [] node = "add_tests" -> "review_and_pr"
      [] node = "review_and_pr" -> "__end__"

\* ------------------------------------------------------------------------
\* State
\* ------------------------------------------------------------------------

RunIds == {1, 2}

VARIABLES
    runs,           \* the processes that run the script
    pc,             \* per run: the statement the process is at
    state,          \* per run: the graph's state (the channels' values)
    returned,       \* per run: the dict the last node returned
    log,            \* per run: stages entered, model calls, subprocesses,
                    \*   file writes and console reads, in order
    score,          \* per run: the parsed review score, -1 before
    TARGET_BRANCH,  \* per run: the branch name typed at line 420
    listed,         \* per run: the paths in the Analyzer's file_candidates
    target,         \* per run: the path add_function wrote to, <<>> before
    wc,             \* the directory at repo_path; NoTree when absent
    origin,         \* the tree of the repository at GITHUB_URL
    branches,       \* the local branches of the working copy
    cur_branch,     \* the branch checked out
    head,           \* per local branch: the files of its last commit
    index           \* the files staged for the next commit

vars ==
    <<runs, pc, state, returned, log, score, TARGET_BRANCH, listed, target,
      wc, origin, branches, cur_branch, head, index>>

runVars == <<pc, state, returned, log, score, TARGET_BRANCH, listed, target>>

gitVars == <<branches, cur_branch, head, index>>

Requirement == "add function who will remove capital characters from string"

NoBranch == "-"

\* an entry of log
Ev(kind, name, rc, arg) == [kind |-> kind, name |-> name, rc |-> rc, arg |-> arg]

\* the entry for inputs["exists_ok"] = v (lines 190 and 212): rc 1 is True
ExistsOkEv(v) == Ev("exists_ok", "check_existing_code", IF v THEN 1 ELSE 0, <<>>)

IsRepo == <<GitDirName>> \in wc.dirs

\* the state a run starts from: nothing typed, nothing built
IdleState == [k \in Channels |-> <<>>]

\* lines 423-431, repo_path being the repository's directory
InitialInputs ==
    [folder_path |-> RootDir, requirement |-> Requirement, recommendation |-> <<>>,
     generated_code |-> <<>>, test_file |-> <<>>, generated_tests |-> <<>>,
     language |-> Python]

\* the files of a branch an earlier run committed to: the commit changed
\* every file of the tree
EarlierCommit(files) == [p \in DOMAIN files |-> files[p] \o <<"earlier">>]

\* the working copies a run can find at repo_path: none, a clone with main
\* checked out that may hold the branch of an earlier run, or a directory
\* that is no clone
InitWorkingCopy(tree) ==
    \/ /\ wc = NoTree
       /\ branches = {} /\ cur_branch = NoBranch
       /\ head = [b \in {} |-> NoFiles] /\ index = NoFiles
    \/ /\ wc = WithGit(tree)
       /\ \E bs \in {{"main"}, {"main", "feat"}} :
            /\ branches = bs
            /\ head = [b \in bs |-> IF b = "main" THEN tree.files
                                                  ELSE EarlierCommit(tree.files)]
       /\ cur_branch = "main"
       /\ index = tree.files
    \/ /\ wc = tree
       /\ branches = {} /\ cur_branch = NoBranch
       /\ head = [b \in {} |-> NoFiles] /\ index = NoFiles

\* the processes in rs are at the first line of the script, the others are
\* not started
RunsAtStart(rs) ==
    /\ runs = rs
    /\ pc = [r \in RunIds |-> IF r \in rs THEN "start" ELSE "idle"]
    /\ state = [r \in RunIds |-> IdleState]
    /\ returned = [r \in RunIds |-> IdleState]
    /\ log = [r \in RunIds |-> <<>>]
    /\ score = [r \in RunIds |-> -1]
    /\ TARGET_BRANCH = [r \in RunIds |-> NoBranch]
    /\ listed = [r \in RunIds |-> {}]
    /\ target = [r \in RunIds |-> <<>>]

InitRuns(rs) ==
    /\ RunsAtStart(rs)
    /\ \E tree \in Trees : origin = tree /\ InitWorkingCopy(tree)

Init == InitRuns({1})

\* two processes started on one working copy, a clone an earlier run left
InitTwo ==
    /\ RunsAtStart(RunIds)
    /\ origin = TreeFlat
    /\ wc = WithGit(TreeFlat)
    /\ branches = {"main"}
    /\ head = [b \in {"main"} |-> TreeFlat.files]
    /\ cur_branch = "main"
    /\ index = TreeFlat.files

\* what the console and the model answer while two processes interleave:
\* one answer per call, but for the review, which passes or does not
InterleavedInputs ==
    [branch |-> {"feat"},
     analyzer |-> {<<"a", ".", "p", "y", "|", "p", "y", "t", "h", "o", "n">>},
     checker |-> {<<"N", "O">>},
     code |-> {<<"f", "(", ")">>},
     tests |-> {<<"t", "(", ")">>},
     review |-> {<<"8">>, <<"8", "0">>},
     merge |-> {<<"y">>}]

\* the answers a call draws from: all of them for one process, those of
\* InterleavedInputs for two
Scoped(all, few) == IF Cardinality(runs) > 1 THEN few ELSE all

\* ------------------------------------------------------------------------
\* Start of the script (lines 420-431) and clone_github_repo (lines 53-61)
\* ------------------------------------------------------------------------

Startup(r) ==
    /\ pc[r] = "start"
    /\ \E typed \in Scoped(BranchNames, InterleavedInputs.branch), rc \in ExitCodes :
         /\ TARGET_BRANCH' = [TARGET_BRANCH EXCEPT ![r] = typed]
         /\ IF wc = NoTree
            THEN \* line 58: git clone, check=True
                 /\ log' = [log EXCEPT ![r] = Append(@, Ev("git", "clone", rc, <<>>))]
                 /\ IF Checked(rc, "cloned") = "cloned"
                    THEN /\ wc' = WithGit(origin)
                         /\ branches' = {"main"}
                         /\ cur_branch' = "main"
                         /\ head' = [b \in {"main"} |-> origin.files]
                         /\ index' = origin.files
                         /\ state' = [state EXCEPT ![r] = InitialInputs]
                         /\ pc' = [pc EXCEPT ![r] = "analyze_project"]
                    ELSE /\ UNCHANGED <<wc, gitVars, state>>
                         /\ pc' = [pc EXCEPT ![r] = "aborted"]
            ELSE /\ rc = 0
                 /\ state' = [state EXCEPT ![r] = InitialInputs]
                 /\ pc' = [pc EXCEPT ![r] = "analyze_project"]
                 /\ UNCHANGED <<wc, gitVars, log>>
    /\ UNCHANGED <<runs, returned, score, listed, target, origin>>

\* ------------------------------------------------------------------------
\* Step 1: analyze_project (lines 107-168)
\* ------------------------------------------------------------------------

\* lines 111-116: the folder the Analyzer works in
AutoDescend(tree, folder_path) ==
    LET top_py == \E f \in ListDir(tree, folder_path) : \E e \in ExtKeys : EndsWith(f, e)
        subfolders == SubFolders(tree, folder_path)
    IN  IF ~ top_py /\ Cardinality(subfolders) = 1
        THEN CHOOSE d \in subfolders : TRUE
        ELSE folder_path

\* lines 120-135: the files put in the prompt
FileCandidates(tree, folder_path) ==
    {p \in Walk(tree, folder_path) :
        /\ Lower(Splitext(p[2])[2]) \in ExtKeys
        /\ ~ StartsWith(p[2], <<"t", "e", "s", "t", "_">>)
        /\ ~ StartsWith(p[2], <<"_", "_">>)
        /\ ~ EndsWith(p[2], <<".", "m", "i", "n", ".", "j", "s">>)}

\* the dict returned at lines 160-168
analyze_project(inputs, tree, content) ==
    LET parsed == ParseRecommendation(content)
    IN  [folder_path |-> AutoDescend(tree, inputs.folder_path),
         requirement |-> inputs.requirement,
         recommendation |-> parsed.recommended_file,
         generated_code |-> <<>>, test_file |-> <<>>, generated_tests |-> <<>>,
         language |-> parsed.lang]

AnalyzeProject(r) ==
    /\ pc[r] = "analyze_project"
    /\ \E content \in Scoped(AnalyzerResponses \cup {Raised}, InterleavedInputs.analyzer) :
         LET ret == analyze_project(state[r], wc, content)
             seen == <<Ev("stage", "analyze_project", 0, <<>>),
                       Ev("model", "analyze_project", IF content = Raised THEN 1 ELSE 0, <<>>)>>
         IN  /\ listed' = [listed EXCEPT ![r] =
                              FileCandidates(wc, AutoDescend(wc, state[r].folder_path))]
             /\ log' = [log EXCEPT ![r] = @ \o seen]
             /\ IF content = Raised
                THEN /\ pc' = [pc EXCEPT ![r] = "aborted"]
                     /\ UNCHANGED <<state, returned>>
                ELSE /\ returned' = [returned EXCEPT ![r] = ret]
                     /\ state' = [state EXCEPT ![r] = ApplyWrites(@, ret)]
                     /\ pc' = [pc EXCEPT ![r] =
                                 NextNode("analyze_project", ApplyWrites(state[r], ret))]
    /\ UNCHANGED <<runs, score, TARGET_BRANCH, target, wc, origin, gitVars>>

\* ------------------------------------------------------------------------
\* Step 2: check_existing_code (lines 173-214)
\* ------------------------------------------------------------------------

CheckExistingCode(r) ==
    /\ pc[r] = "check_existing_code"
    /\ LET inputs == state[r]
           matches == FirstMatches(wc, inputs.folder_path, inputs.recommendation)
           entered == Ev("stage", "check_existing_code", 0, <<>>)
       IN  IF matches = {}
           THEN \* lines 188-191
                LET ret == SetExistsOk(inputs, FALSE)
                IN  /\ log' = [log EXCEPT ![r] = @ \o <<entered, ExistsOkEv(FALSE)>>]
                    /\ returned' = [returned EXCEPT ![r] = ret]
                    /\ state' = [state EXCEPT ![r] = ApplyWrites(@, ret)]
                    /\ pc' = [pc EXCEPT ![r] =
                                NextNode("check_existing_code", ApplyWrites(state[r], ret))]
           ELSE \E file_path \in matches,
                   content \in Scoped(CheckerResponses \cup {Raised}, InterleavedInputs.checker) :
                LET ret == SetExistsOk(inputs, AnswerIsYes(content))
                    seen == <<entered,
                              Ev("found", "check_existing_code", 0, file_path),
                              Ev("model", "check_existing_code",
                                 IF content = Raised THEN 1 ELSE 0, content)>>
                IN  /\ log' = [log EXCEPT ![r] =
                                 @ \o seen \o (IF content = Raised THEN <<>>
                                               ELSE <<ExistsOkEv(AnswerIsYes(content))>>)]
                    /\ IF content = Raised
                       THEN /\ pc' = [pc EXCEPT ![r] = "aborted"]
                            /\ UNCHANGED <<state, returned>>
                       ELSE /\ returned' = [returned EXCEPT ![r] = ret]
                            /\ state' = [state EXCEPT ![r] = ApplyWrites(@, ret)]
                            /\ pc' = [pc EXCEPT ![r] =
                                  NextNode("check_existing_code", ApplyWrites(state[r], ret))]
    /\ UNCHANGED <<runs, score, TARGET_BRANCH, listed, target, wc, origin, gitVars>>

\* ------------------------------------------------------------------------
\* Step 3: add_function (lines 219-267)
\* ------------------------------------------------------------------------

\* the recommended name taken as it is, without the extension
NewFileName_NoExt(file_name, lang) == file_name

\* lines 241-242: the name of the file created in folder_path
NewFileName(file_name, lang) ==
    LET ext == ExtForLang(lang)
    IN  IF EndsWith(file_name, ext) THEN file_name ELSE file_name \o ext

\* line 262: the text written after the snippet was extracted
SnippetText(code_snippet) == <<"\n", "\n">> \o code_snippet \o <<"\n">>

AddFunction(r) ==
    /\ pc[r] = "add_function"
    /\ LET inputs == state[r]
           entered == Ev("stage", "add_function", 0, <<>>)
       IN  IF GetExistsOk(inputs)
           THEN \* lines 220-222
                /\ log' = [log EXCEPT ![r] = Append(@, entered)]
                /\ returned' = [returned EXCEPT ![r] = inputs]
                /\ state' = [state EXCEPT ![r] = ApplyWrites(@, inputs)]
                /\ pc' = [pc EXCEPT ![r] = NextNode("add_function", ApplyWrites(state[r], inputs))]
                /\ UNCHANGED <<wc, target>>
           ELSE LET matches == FirstMatches(wc, inputs.folder_path, inputs.recommendation)
                    found == matches # {}
                IN  \E hit \in (IF found THEN matches ELSE {<<>>}),
                       content \in Scoped(CodeResponses \cup {Raised}, InterleavedInputs.code) :
                    LET file_name == IF found THEN hit[2] ELSE inputs.recommendation
                        target_path ==
                            IF found THEN hit
                            ELSE <<inputs.folder_path,
                                   NewFileName(inputs.recommendation, inputs.language)>>
                        \* line 243: open(target_path, "a").close()
                        opened == IF found THEN wc.files
                                  ELSE AppendTo(wc.files, target_path, <<>>)
                        code_snippet == ExtractCode(content)
                        ret == [inputs EXCEPT !.generated_code = code_snippet,
                                              !.recommendation = file_name]
                        located == IF found
                                   THEN Ev("found", "add_function", 0, target_path)
                                   ELSE Ev("create", "add_function", 0, target_path)
                        called == Ev("model", "add_function",
                                     IF content = Raised THEN 1 ELSE 0, <<>>)
                    IN  IF content = Raised
                        THEN /\ wc' = [wc EXCEPT !.files = opened]
                             /\ log' = [log EXCEPT ![r] = @ \o <<entered, located, called>>]
                             /\ pc' = [pc EXCEPT ![r] = "aborted"]
                             /\ UNCHANGED <<state, returned, target>>
                        ELSE /\ wc' = [wc EXCEPT !.files =
                                         AppendTo(opened, target_path, SnippetText(code_snippet))]
                             /\ log' = [log EXCEPT ![r] =
                                          @ \o <<entered, located, called,
                                                 Ev("append", "add_function", 0, target_path)>>]
                             /\ target' = [target EXCEPT ![r] = target_path]
                             /\ returned' = [returned EXCEPT ![r] = ret]
                             /\ state' = [state EXCEPT ![r] = ApplyWrites(@, ret)]
                             /\ pc' = [pc EXCEPT ![r] =
                                         NextNode("add_function", ApplyWrites(state[r], ret))]
    /\ UNCHANGED <<runs, score, TARGET_BRANCH, listed, origin, gitVars>>

\* ------------------------------------------------------------------------
\* Step 4: add_tests (lines 273-340)
\* ------------------------------------------------------------------------

\* lines 294-306: the name of the test file
TestFileName(file_name, lang) ==
    LET base == Splitext(file_name)[1]
        ext == Splitext(file_name)[2]
    IN  IF lang \in {Javascript, Typescript}
        THEN base \o <<".", "t", "e", "s", "t">> \o (IF ext # <<>> THEN ext ELSE DotJs)
        ELSE IF lang = Java THEN base \o <<"T", "e", "s", "t">> \o DotJava
        ELSE IF lang = Go THEN base \o <<"_", "t", "e", "s", "t">> \o DotGo
        ELSE <<"t", "e", "s", "t", "_">> \o base \o DotPy

\* lines 334-335: the text written to the test file
TestText(test_code) ==
    <<"\n", "\n", "# ---- Auto-generated tests ----", "\n">> \o test_code \o <<"\n">>

AddTests(r) ==
    /\ pc[r] = "add_tests"
    /\ LET inputs == state[r]
           matches == FirstMatches(wc, inputs.folder_path, inputs.recommendation)
           found == matches # {}
       IN  \E hit \in (IF found THEN matches ELSE {<<>>}),
              content \in Scoped(TestResponses \cup {Raised}, InterleavedInputs.tests) :
           LET file_name == IF found THEN hit[2] ELSE inputs.recommendation
               target_dir == IF found THEN hit[1] ELSE inputs.folder_path
               test_file == <<target_dir, TestFileName(file_name, inputs.language)>>
               test_code == ExtractCode(content)
               ret == [inputs EXCEPT !.test_file = test_file,
                                     !.generated_tests = test_code]
               seen == <<Ev("stage", "add_tests", 0, <<>>)>>
                         \o (IF found THEN <<Ev("found", "add_tests", 0, hit)>> ELSE <<>>)
                         \o <<Ev("model", "add_tests", IF content = Raised THEN 1 ELSE 0, <<>>)>>
           IN  IF content = Raised
               THEN /\ log' = [log EXCEPT ![r] = @ \o seen]
                    /\ pc' = [pc EXCEPT ![r] = "aborted"]
                    /\ UNCHANGED <<wc, state, returned>>
               ELSE /\ wc' = [wc EXCEPT !.files =
                                AppendTo(wc.files, test_file, TestText(test_code))]
                    /\ log' = [log EXCEPT ![r] =
                                 @ \o seen \o <<Ev("append", "add_tests", 0, test_file)>>]
                    /\ returned' = [returned EXCEPT ![r] = ret]
                    /\ state' = [state EXCEPT ![r] = ApplyWrites(@, ret)]
                    /\ pc' = [pc EXCEPT ![r] =
                                NextNode("add_tests", ApplyWrites(state[r], ret))]
    /\ UNCHANGED <<runs, score, TARGET_BRANCH, listed, target, origin, gitVars>>

\* ------------------------------------------------------------------------
\* git, as far as review_and_pr uses it
\* ------------------------------------------------------------------------

\* git add that stages nothing
Tracked_Nothing(files) == NoFiles

\* git add that leaves the index as it was
Tracked_Staged(files) == index

\* the files of a tree that git tracks
Tracked(files) ==
    [p \in {q \in DOMAIN files : ~ IsPrefix(<<GitDirName>>, q[1])} |-> files[p]]

\* whether path p is absent from, or differs between, the file maps a and b
Differs(a, b, p) ==
    \/ (p \in DOMAIN a) # (p \in DOMAIN b)
    \/ p \in DOMAIN a /\ p \in DOMAIN b /\ a[p] # b[p]

\* git refuses to switch from commit from to commit to when a file that
\* differs between them has local changes
CheckoutConflict(files, from, to) ==
    \E p \in DOMAIN from \cup DOMAIN to :
        Differs(from, to, p) /\ Differs(Tracked(files), from, p)

\* the files after switching: those that differ between the commits are
\* taken from commit to, the others keep their local content
CheckoutFiles(files, from, to) ==
    LET gone == {p \in DOMAIN from \cup DOMAIN to : Differs(from, to, p) /\ p \notin DOMAIN to}
        keep == (DOMAIN files \cup DOMAIN to) \ gone
    IN  [p \in keep |-> IF Differs(from, to, p) THEN to[p] ELSE files[p]]

\* git runs in cwd: it needs a working copy, and a cwd outside its .git
CanGit(cwd) == IsRepo /\ ~ IsPrefix(<<GitDirName>>, cwd)

\* exit code of git checkout b (line 354)
CheckoutRc(cwd, b) ==
    IF /\ CanGit(cwd)
       /\ b \in branches
       /\ ~ CheckoutConflict(wc.files, head[cur_branch], head[b])
    THEN 0 ELSE 1

\* exit code of git checkout -b b (line 355)
CheckoutNewRc(cwd, b) ==
    IF CanGit(cwd) /\ b # "" /\ b \notin branches THEN 0 ELSE 1

\* ------------------------------------------------------------------------
\* Step 5: review_and_pr (lines 345-389), one action per external call
\* ------------------------------------------------------------------------

\* PassesReview with the comparison made against the score's first digit
PassesReview_OneDigit(sc) == sc >= ScoreThreshold \div 10

\* line 376: if score >= 80
PassesReview(sc) == sc >= ScoreThreshold

\* return inputs (lines 348 and 389) and the edge to the finish point
ReturnFromReview(r) ==
    /\ returned' = [returned EXCEPT ![r] = state[r]]
    /\ state' = [state EXCEPT ![r] = ApplyWrites(@, state[r])]
    /\ pc' = [pc EXCEPT ![r] = NextNode("review_and_pr", ApplyWrites(state[r], state[r]))]

\* lines 346-354: the exists_ok test and git checkout branch_name
ReviewCheckout(r) ==
    /\ pc[r] = "review_and_pr"
    /\ LET entered == Ev("stage", "review_and_pr", 0, <<>>)
           b == TARGET_BRANCH[r]
           rc == CheckoutRc(state[r].folder_path, b)
       IN  IF GetExistsOk(state[r])
           THEN /\ log' = [log EXCEPT ![r] = Append(@, entered)]
                /\ ReturnFromReview(r)
                /\ UNCHANGED <<wc, gitVars>>
           ELSE /\ log' = [log EXCEPT ![r] = @ \o <<entered, Ev("git", "checkout", rc, b)>>]
                /\ pc' = [pc EXCEPT ![r] = "rp_checkout_b"]
                /\ IF rc = 0
                   THEN /\ cur_branch' = b
                        /\ wc' = [wc EXCEPT !.files =
                                     CheckoutFiles(@, head[cur_branch], head[b])]
                        /\ index' = CheckoutFiles(index, head[cur_branch], head[b])
                        /\ UNCHANGED <<branches, head>>
                   ELSE UNCHANGED <<wc, gitVars>>
                /\ UNCHANGED <<state, returned>>
    /\ UNCHANGED <<runs, score, TARGET_BRANCH, listed, target, origin>>

\* line 355: git checkout -b branch_name, check=False
ReviewCheckoutNew(r) ==
    /\ pc[r] = "rp_checkout_b"
    /\ LET b == TARGET_BRANCH[r]
           rc == CheckoutNewRc(state[r].folder_path, b)
       IN  /\ log' = [log EXCEPT ![r] = Append(@, Ev("git", "checkout -b", rc, b))]
           /\ IF rc = 0
              THEN /\ branches' = branches \cup {b}
                   /\ head' = [x \in branches \cup {b} |->
                                 IF x = b THEN head[cur_branch] ELSE head[x]]
                   /\ cur_branch' = b
                   /\ UNCHANGED index
              ELSE UNCHANGED gitVars
    /\ pc' = [pc EXCEPT ![r] = "rp_add"]
    /\ UNCHANGED <<runs, state, returned, score, TARGET_BRANCH, listed, target, wc, origin>>

\* line 356: git add ., check=True
ReviewAdd(r) ==
    /\ pc[r] = "rp_add"
    /\ \E rc \in ExitCodes :
         /\ rc = 0 => CanGit(state[r].folder_path)
         /\ log' = [log EXCEPT ![r] = Append(@, Ev("git", "add", rc, cur_branch))]
         /\ index' = IF rc = 0 THEN Tracked(wc.files) ELSE index
         /\ pc' = [pc EXCEPT ![r] = Checked(rc, "rp_commit")]
    /\ UNCHANGED <<runs, state, returned, score, TARGET_BRANCH, listed, target,
                   wc, origin, branches, cur_branch, head>>

\* line 357: git commit, check=False; git commits the index to the branch
\* checked out, and fails when there is nothing to commit
ReviewCommit(r) ==
    /\ pc[r] = "rp_commit"
    /\ \E rc \in ExitCodes :
         /\ rc = 0 => CanGit(state[r].folder_path) /\ index # head[cur_branch]
         /\ log' = [log EXCEPT ![r] = Append(@, Ev("git", "commit", rc, cur_branch))]
         /\ IF rc = 0
            THEN head' = [head EXCEPT ![cur_branch] = index]
            ELSE UNCHANGED head
    /\ pc' = [pc EXCEPT ![r] = "rp_diff"]
    /\ UNCHANGED <<runs, state, returned, score, TARGET_BRANCH, listed, target,
                   wc, origin, branches, cur_branch, index>>

\* lines 359-360: git diff --stat HEAD~1, without check
ReviewDiff(r) ==
    /\ pc[r] = "rp_diff"
    /\ \E rc \in ExitCodes :
         log' = [log EXCEPT ![r] = Append(@, Ev("git", "diff", rc, <<>>))]
    /\ pc' = [pc EXCEPT ![r] = "rp_score"]
    /\ UNCHANGED <<runs, state, returned, score, TARGET_BRANCH, listed, target,
                   wc, origin, gitVars>>

\* lines 369-376 and 386-389: the review request, the score, the threshold
ReviewScore(r) ==
    /\ pc[r] = "rp_score"
    /\ \E content \in Scoped(ScoreResponses \cup {Raised}, InterleavedInputs.review) :
         /\ log' = [log EXCEPT ![r] =
                      Append(@, Ev("model", "review_and_pr",
                                   IF content = Raised THEN 1 ELSE 0, content))]
         /\ IF content = Raised
            THEN /\ pc' = [pc EXCEPT ![r] = "aborted"]
                 /\ UNCHANGED <<score, state, returned>>
            ELSE /\ score' = [score EXCEPT ![r] = ParseScore(content)]
                 /\ IF PassesReview(ParseScore(content))
                    THEN /\ pc' = [pc EXCEPT ![r] = "rp_push"]
                         /\ UNCHANGED <<state, returned>>
                    ELSE ReturnFromReview(r)
    /\ UNCHANGED <<runs, TARGET_BRANCH, listed, target, wc, origin, gitVars>>

\* line 378: git push -u origin branch_name, check=True
ReviewPush(r) ==
    /\ pc[r] = "rp_push"
    /\ \E rc \in ExitCodes :
         /\ rc = 0 => CanGit(state[r].folder_path) /\ TARGET_BRANCH[r] \in branches
         /\ log' = [log EXCEPT ![r] = Append(@, Ev("git", "push", rc, TARGET_BRANCH[r]))]
         /\ pc' = [pc EXCEPT ![r] = Checked(rc, "rp_pr")]
    /\ UNCHANGED <<runs, state, returned, score, TARGET_BRANCH, listed, target,
                   wc, origin, gitVars>>

\* lines 379-381: gh pr create, check=True
ReviewCreatePr(r) ==
    /\ pc[r] = "rp_pr"
    /\ \E rc \in ExitCodes :
         /\ log' = [log EXCEPT ![r] = Append(@, Ev("gh", "pr create", rc, cur_branch))]
         /\ pc' = [pc EXCEPT ![r] = Checked(rc, "rp_prompt")]
    /\ UNCHANGED <<runs, state, returned, score, TARGET_BRANCH, listed, target,
                   wc, origin, gitVars>>

\* lines 382-383: the merge prompt
ReviewPrompt(r) ==
    /\ pc[r] = "rp_prompt"
    /\ \E typed \in Scoped(MergeAnswers, InterleavedInputs.merge) :
         /\ log' = [log EXCEPT ![r] = Append(@, Ev("input", "merge", 0, typed))]
         /\ IF IsAffirmative(typed)
            THEN /\ pc' = [pc EXCEPT ![r] = "rp_merge"]
                 /\ UNCHANGED <<state, returned>>
            ELSE ReturnFromReview(r)
    /\ UNCHANGED <<runs, score, TARGET_BRANCH, listed, target, wc, origin, gitVars>>

\* lines 384-389: gh pr merge, check=True
ReviewMerge(r) ==
    /\ pc[r] = "rp_merge"
    /\ \E rc \in ExitCodes :
         /\ log' = [log EXCEPT ![r] =
                      Append(@, Ev("gh", "pr merge", rc, TARGET_BRANCH[r]))]
         /\ IF Checked(rc, "return") = "return"
            THEN ReturnFromReview(r)
            ELSE /\ pc' = [pc EXCEPT ![r] = "aborted"]
                 /\ UNCHANGED <<state, returned>>
    /\ UNCHANGED <<runs, score, TARGET_BRANCH, listed, target, wc, origin, gitVars>>

\* ------------------------------------------------------------------------
\* Specification
\* ------------------------------------------------------------------------

Next ==
    \/ \E r \in runs : Startup(r)
    \/ \E r \in runs : AnalyzeProject(r)
    \/ \E r \in runs : CheckExistingCode(r)
    \/ \E r \in runs : AddFunction(r)
    \/ \E r \in runs : AddTests(r)
    \/ \E r \in runs : ReviewCheckout(r)
    \/ \E r \in runs : ReviewCheckoutNew(r)
    \/ \E r \in runs : ReviewAdd(r)
    \/ \E r \in runs : ReviewCommit(r)
    \/ \E r \in runs : ReviewDiff(r)
    \/ \E r \in runs : ReviewScore(r)
    \/ \E r \in runs : ReviewPush(r)
    \/ \E r \in runs : ReviewCreatePr(r)
    \/ \E r \in runs : ReviewPrompt(r)
    \/ \E r \in runs : ReviewMerge(r)

Spec == Init /\ [][Next]_vars

\* two processes running the script at once on one working copy
SpecTwo == InitTwo /\ [][Next]_vars

\* every call of the script returns: a run that has a next statement takes
\* it
FairSpec == Spec /\ WF_vars(Next)

\* ------------------------------------------------------------------------
\* Reading the log
\* ------------------------------------------------------------------------

IsStage(e) == e.kind = "stage"

\* the stages run r entered, in order
StageTrace(r) ==
    LET st == SelectSeq(log[r], IsStage)
    IN  [i \in 1..Len(st) |-> st[i].name]

\* the positions of the entries of one kind and name in the log of run r
Idx(r, kind, name) ==
    {i \in 1..Len(log[r]) : log[r][i].kind = kind /\ log[r][i].name = name}

\* the stage an entry of the log was made in: the last stage entered before
StageAt(r, i) ==
    LET before == {j \in 1..i : log[r][j].kind = "stage"}
    IN  IF before = {} THEN "none"
        ELSE log[r][CHOOSE j \in before : \A k \in before : k <= j].name

ReviewSteps ==
    {"rp_checkout_b", "rp_add", "rp_commit", "rp_diff", "rp_score", "rp_push",
     "rp_pr", "rp_prompt", "rp_merge"}

\* ------------------------------------------------------------------------
\* Claims
\* ------------------------------------------------------------------------

\* C1: the stages of a run are entered in the order analyze_project,
\* check_existing_code, add_function, add_tests, review_and_pr, each at most
\* once and never an earlier one again; a run that ended has entered the
\* first two or all five; every model call and file operation of a stage
\* lies between the entry of that stage and the entry of the next, and the
\* run waits at the stage after the last one entered.
C1_StagesForward ==
    \A r \in runs :
        LET st == StageTrace(r)
        IN  /\ Len(st) <= Len(Order)
            /\ \A i \in 1..Len(st) : st[i] = Order[i]
            /\ pc[r] = "__end__" => Len(st) \in {2, Len(Order)}
            /\ pc[r] \in {Order[i] : i \in 1..Len(Order)} => pc[r] = Order[Len(st) + 1]
            /\ pc[r] \in ReviewSteps => Len(st) = Len(Order)
            /\ \A i \in 1..Len(log[r]) :
                 /\ log[r][i].kind \in {"model", "found", "create", "append", "exists_ok"}
                      => StageAt(r, i) = log[r][i].name
                 /\ log[r][i].kind \in {"gh", "input"} => StageAt(r, i) = "review_and_pr"
                 /\ log[r][i].kind = "git" /\ log[r][i].name # "clone"
                      => StageAt(r, i) = "review_and_pr"

C1_Witness ==
    \E r \in runs : pc[r] = "__end__" /\ StageTrace(r) = Order

\* C2: once the Checker has set exists_ok to true the run is over: the
\* Checker's assignment is the last thing the run did (no file created or
\* appended to, no model call, no git or gh command after it).
C2_StopsAfterChecker ==
    \A r \in runs :
        \A i \in Idx(r, "exists_ok", "check_existing_code") :
            log[r][i].rc = 1 => i = Len(log[r]) /\ pc[r] = "__end__"

\* C3: a review answer without a digit gives the score 0; with a score
\* below 80 the run has attempted the commit and issues no push, no
\* pull-request creation and no merge, and ends; a push or a pull-request
\* creation is issued only with a score of at least 80.
C3_BelowThresholdNoPublish ==
    \A r \in runs :
        LET published == Idx(r, "git", "push") \cup Idx(r, "gh", "pr create")
                           \cup Idx(r, "gh", "pr merge")
        IN  /\ \A i \in Idx(r, "model", "review_and_pr") :
                 /\ log[r][i].rc = 0
                 /\ \A k \in 1..Len(log[r][i].arg) : log[r][i].arg[k] \notin Digits
                 => score[r] = 0
            /\ score[r] >= 0 /\ score[r] < 80
                 => /\ Idx(r, "git", "commit") # {}
                    /\ published = {}
                    /\ pc[r] = "__end__"
            /\ published # {} => score[r] >= 80

C3_Witness ==
    \E r \in runs :
        /\ pc[r] = "__end__"
        /\ score[r] = 8
        /\ \E i \in Idx(r, "git", "commit") : log[r][i].rc = 0

\* C4: the pull request is created only after a push that succeeded, the
\* operator is asked only after a pull-request creation that succeeded, and
\* the merge is issued exactly when the answer, trimmed and lower-cased, is
\* "yes" or "y": never without the push and the pull request before it, and
\* never for another answer, after which the run ends with branch pushed
\* and pull request open.
C4_MergeOnlyOnYes ==
    \A r \in runs :
        LET pushes == Idx(r, "git", "push")
            prs == Idx(r, "gh", "pr create")
            asks == Idx(r, "input", "merge")
            merges == Idx(r, "gh", "pr merge")
            yes == {<<"y", "e", "s">>, <<"y">>, <<" ", "Y", "E", "S", "\n">>}
        IN  /\ Cardinality(pushes) <= 1 /\ Cardinality(prs) <= 1
            /\ Cardinality(asks) <= 1 /\ Cardinality(merges) <= 1
            /\ pushes # {} => score[r] >= 80
            /\ score[r] >= 80 /\ pc[r] = "__end__" => asks # {}
            /\ \A j \in prs : \E i \in pushes : i < j /\ log[r][i].rc = 0
            /\ \A k \in asks : \E j \in prs : j < k /\ log[r][j].rc = 0
            /\ \A m \in merges : \E k \in asks : k < m /\ log[r][k].arg \in yes
            /\ \A k \in asks :
                 IF log[r][k].arg \in yes
                 THEN pc[r] = "rp_merge" \/ merges # {}
                 ELSE merges = {} /\ pc[r] = "__end__"

C4_Witness ==
    \E r \in runs :
        /\ pc[r] = "__end__"
        /\ \E k \in Idx(r, "input", "merge") : log[r][k].arg = <<" ", "Y", "E", "S", "\n">>
        /\ \E m \in Idx(r, "gh", "pr merge") : log[r][m].rc = 0

\* C5: every commit review_and_pr makes is made on the target branch.
C5_CommitOnTargetBranch ==
    \A r \in runs :
        \A i \in Idx(r, "git", "commit") :
            log[r][i].rc = 0 => log[r][i].arg = TARGET_BRANCH[r]

Tolerated3 == {"checkout", "checkout -b", "commit"}

\* C6 as written: a non-zero exit of a git or gh command other than the two
\* checkouts and the commit (clone, add, diff --stat, push, pull-request
\* create, pull-request merge) is the last thing the run does, and the run
\* is aborted.
C6_FatalButThree ==
    \A r \in runs :
        \A i \in 1..Len(log[r]) :
            /\ log[r][i].kind \in {"git", "gh"}
            /\ log[r][i].rc # 0
            /\ log[r][i].name \notin Tolerated3
            => i = Len(log[r]) /\ pc[r] = "aborted"

\* the statement after a tolerated command
AfterTolerated(name) ==
    CASE name = "checkout" -> "rp_checkout_b"
      [] name = "checkout -b" -> "rp_add"
      [] name = "commit" -> "rp_diff"
      [] name = "diff" -> "rp_score"

\* C6 as amended: a non-zero exit of clone, add, push, pull-request create
\* or pull-request merge is the last thing the run does, and the run is
\* aborted; after a non-zero exit of the two checkouts, the commit or
\* diff --stat the run is at the next statement.
C6_FatalButFour ==
    \A r \in runs :
        \A i \in 1..Len(log[r]) :
            log[r][i].kind \in {"git", "gh"} /\ log[r][i].rc # 0
            => IF log[r][i].name \in Tolerated3 \cup {"diff"}
               THEN i = Len(log[r]) => pc[r] = AfterTolerated(log[r][i].name)
               ELSE i = Len(log[r]) /\ pc[r] = "aborted"

C6_Witness ==
    \E r \in runs :
        /\ pc[r] = "__end__"
        /\ \E i \in Idx(r, "git", "checkout") : log[r][i].rc # 0
        /\ \E i \in Idx(r, "git", "commit") : log[r][i].rc # 0
        /\ \E i \in Idx(r, "git", "diff") : log[r][i].rc # 0

\* C7: once the Analyzer has completed, recommendation is not empty.
C7_RecommendationNonEmpty ==
    \A r \in runs :
        Len(StageTrace(r)) >= 1 /\ ~ (pc[r] = "aborted" /\ Len(StageTrace(r)) = 1)
        => state[r].recommendation # <<>>

Languages == {Python, Javascript, Typescript, Java, Go, Ruby, Unknown}

\* C8: the language of a run's state is one of the seven enumerated values.
C8_LanguageEnumerated ==
    \A r \in runs : pc[r] \notin {"idle", "start"} => state[r].language \in Languages

\* C9: every file a stage locates or lists has an extension of
\* EXT_LANG_MAP.
C9_OnlyRecognizedExtensions ==
    \A r \in runs :
        /\ \A p \in listed[r] : Lower(Splitext(p[2])[2]) \in ExtKeys
        /\ \A i \in 1..Len(log[r]) :
             log[r][i].kind = "found" => Lower(Splitext(log[r][i].arg[2])[2]) \in ExtKeys

\* C10: no stage changes requirement; no stage after the Analyzer changes
\* folder_path or language; generated_code keeps its value after the Code
\* Augmenter, test_file and generated_tests after the Test Augmenter; and
\* the exists_ok the Checker set is in the state the later stages and the
\* fork read, with the value the Checker gave it.
C10_FieldsPersist ==
    [][\A r \in runs :
         LET n == Len(StageTrace(r))
         IN  /\ pc[r] \notin {"idle", "start"}
                  => state'[r].requirement = state[r].requirement
             /\ n >= 1 /\ pc[r] # "analyze_project"
                  => /\ state'[r].folder_path = state[r].folder_path
                     /\ state'[r].language = state[r].language
             /\ n >= 3 /\ pc[r] # "add_function"
                  => state'[r].generated_code = state[r].generated_code
             /\ n >= 4 /\ pc[r] # "add_tests"
                  => /\ state'[r].test_file = state[r].test_file
                     /\ state'[r].generated_tests = state[r].generated_tests
             /\ pc[r] = "check_existing_code" /\ pc'[r] # "aborted"
                  => /\ "exists_ok" \in DOMAIN state'[r]
                     /\ state'[r]["exists_ok"] = returned'[r]["exists_ok"]
      ]_vars

\* C11: a step of the Code Augmenter or of the Test Augmenter keeps every
\* file of the working copy and only adds to the end of a file: what a
\* file held before the step is a prefix of what it holds after it, also
\* for a test file an earlier run left.
C11_AppendOnly ==
    [][\A r \in runs :
         pc[r] \in {"add_function", "add_tests"} /\ pc'[r] # pc[r]
         => \A p \in DOMAIN wc.files :
                /\ p \in DOMAIN wc'.files
                /\ IsPrefix(wc.files[p], wc'.files[p])
      ]_vars

\* the Test Augmenter has appended to a test file that was in the working
\* copy before the run, after the Code Augmenter wrote its snippet
C11_Witness ==
    \E r \in runs :
        /\ Idx(r, "append", "add_function") # {}
        /\ \E i \in Idx(r, "append", "add_tests") :
              LET p == log[r][i].arg
              IN  /\ p \in DOMAIN origin.files
                  /\ IsPrefix(origin.files[p], wc.files[p])
                  /\ Len(wc.files[p]) > Len(origin.files[p])

\* the file the Code Augmenter writes to when its walk finds none, and what
\* the step may change besides: the file is in folder_path, its name ends
\* with the extension of the language (.py for python, .txt for a language
\* that is not in the table), the snippet is appended to it, and no other
\* file appears or changes
WritesOneFile(r, p) ==
    LET inputs == state[r]
        before == IF p \in DOMAIN wc.files THEN wc.files[p] ELSE <<>>
    IN  /\ p[1] = inputs.folder_path
        /\ EndsWith(p[2], ExtForLang(inputs.language))
        /\ inputs.language = Python => EndsWith(p[2], DotPy)
        /\ inputs.language \notin {Python, Javascript, Typescript, Java, Go, Ruby}
              => EndsWith(p[2], DotTxt)
        /\ DOMAIN wc'.files = DOMAIN wc.files \cup {p}
        /\ wc'.files[p] = before \o SnippetText(state'[r].generated_code)
        /\ \A q \in DOMAIN wc.files \ {p} : wc'.files[q] = wc.files[q]

\* whether the step about to be taken by run r is a Code Augmenter step
\* that completes after its walk found no file
AugmentsWithoutMatch(r) ==
    /\ pc[r] = "add_function"
    /\ pc'[r] \notin {"add_function", "aborted"}
    /\ FirstMatches(wc, state[r].folder_path, state[r].recommendation) = {}

HoldsYes(text) ==
    \E j \in 1..(Len(text) - 2) :
        /\ text[j] \in {"Y", "y"}
        /\ text[j + 1] \in {"E", "e"}
        /\ text[j + 2] \in {"S", "s"}

\* C13: the exists_ok the Checker sets is true exactly when its walk found
\* the file and the model's answer holds "yes" in either case, and false
\* for every other answer; when the walk finds no file the Checker sets
\* false and has not asked the model; the dict it returns carries the
\* value.
C13_ExistsOkIffYes ==
    \A r \in runs :
        LET founds == Idx(r, "found", "check_existing_code")
            asks == Idx(r, "model", "check_existing_code")
            oks == Idx(r, "exists_ok", "check_existing_code")
        IN  /\ Cardinality(oks) <= 1 /\ Cardinality(asks) <= 1
            /\ asks # {} => founds # {}
            /\ \A i \in oks :
                 /\ log[r][i].rc = 1
                      <=> /\ founds # {}
                          /\ \E k \in asks : k < i /\ HoldsYes(log[r][k].arg)
                 /\ founds # {} => \E k \in asks : k < i /\ log[r][k].rc = 0
                 /\ i = Len(log[r])
                      => returned[r]["exists_ok"] = (log[r][i].rc = 1)
            /\ Len(StageTrace(r)) >= 2 /\ founds = {} => oks # {} /\ asks = {}

\* the Checker found the file, the model answered "yes." and exists_ok was
\* set to true
C13_Witness ==
    \E r \in runs :
        /\ Idx(r, "found", "check_existing_code") # {}
        /\ \E k \in Idx(r, "model", "check_existing_code") :
              log[r][k].arg = <<"y", "e", "s", ".">>
        /\ \E i \in Idx(r, "exists_ok", "check_existing_code") : log[r][i].rc = 1

\* C14: once the Code Augmenter has appended its snippet, recommendation
\* is the name on disk of the file it appended to, whether the file was
\* found or created; the Test Augmenter's walk for recommendation then
\* finds that file, and the test file goes to its directory.
C14_RecommendationIsTargetName ==
    \A r \in runs :
        target[r] # <<>>
        => /\ state[r].recommendation = target[r][2]
           /\ pc[r] = "add_tests"
                => target[r] \in FirstMatches(wc, state[r].folder_path,
                                              state[r].recommendation)
           /\ \A i \in Idx(r, "append", "add_tests") :
                /\ Idx(r, "found", "add_tests") # {}
                /\ log[r][i].arg[1] = target[r][1]

\* C15: git add and the commit attempt come after the append to the source
\* file and the append to the test file and before the review request to
\* the model, whatever score is read later; and a commit that was made
\* stays: at every later point of the run, the end included, the branch it
\* was made on holds the source file and the test file as the run wrote
\* them.
C15_CommitBeforeScore ==
    \A r \in runs :
        LET adds == Idx(r, "git", "add")
            commits == Idx(r, "git", "commit")
            asks == Idx(r, "model", "review_and_pr")
            written == Idx(r, "append", "add_function")
            tested == Idx(r, "append", "add_tests")
        IN  /\ Cardinality(adds) <= 1 /\ Cardinality(commits) <= 1
            /\ \A i \in adds : \E a \in written, t \in tested : a < t /\ t < i
            /\ \A c \in commits : \E i \in adds : i < c /\ log[r][i].rc = 0
            /\ \A m \in asks : \E c \in commits : c < m
            /\ score[r] >= 0 => commits # {} /\ asks # {}
            /\ \A c \in commits :
                 log[r][c].rc = 0
                 => LET b == log[r][c].arg
                        src == target[r]
                        tst == state[r].test_file
                    IN  /\ b \in branches
                        /\ src \in DOMAIN head[b] /\ head[b][src] = wc.files[src]
                        /\ tst \in DOMAIN head[b] /\ head[b][tst] = wc.files[tst]
                        /\ Len(head[b][src]) >= Len(SnippetText(state[r].generated_code))

\* a run ended with a score at or above the threshold, its pull request
\* created, and the commit it made before the review still on the branch
C15_Witness ==
    \E r \in runs :
        /\ pc[r] = "__end__"
        /\ score[r] >= ScoreThreshold
        /\ \E c \in Idx(r, "git", "commit") :
              /\ log[r][c].rc = 0
              /\ head[log[r][c].arg][target[r]] = wc.files[target[r]]
        /\ Idx(r, "gh", "pr create") # {}

\* C16: two runs on one working copy are not kept apart. A run appends to
\* a file as it is on disk, text of the other run included; a git add that
\* succeeds stages every file of the working copy outside .git with what it
\* holds on disk, whichever run wrote it; and a commit that succeeds puts
\* all that is staged on the branch checked out.
C16_NoIsolation ==
    [][\A r \in runs :
         /\ pc[r] \in {"add_function", "add_tests"} /\ pc'[r] # pc[r]
              => \A p \in DOMAIN wc.files :
                     p \in DOMAIN wc'.files /\ IsPrefix(wc.files[p], wc'.files[p])
         /\ pc[r] = "rp_add" /\ pc'[r] = "rp_commit"
              => \A p \in DOMAIN wc.files :
                     ~ IsPrefix(<<GitDirName>>, p[1])
                     => p \in DOMAIN index' /\ index'[p] = wc.files[p]
         /\ pc[r] = "rp_commit" /\ pc'[r] = "rp_diff"
            /\ log'[r][Len(log'[r])].rc = 0
              => head'[cur_branch] = index
      ]_vars

\* both runs appended their snippet to the same file, and the commit of one
\* of them holds the snippet and the test file text of the other, which
\* has staged nothing itself
C16_Witness ==
    \E r \in runs, q \in runs :
        /\ r # q
        /\ target[r] # <<>> /\ target[r] = target[q]
        /\ Idx(q, "append", "add_tests") # {}
        /\ Idx(q, "git", "add") = {}
        /\ \E c \in Idx(r, "git", "commit") :
              LET b == log[r][c].arg
                  p == target[r]
                  both == {SnippetText(state[r].generated_code)
                             \o SnippetText(state[q].generated_code),
                           SnippetText(state[q].generated_code)
                             \o SnippetText(state[r].generated_code)}
              IN  /\ log[r][c].rc = 0
                  /\ \E w \in both : head[b][p] = origin.files[p] \o w
                  /\ head[b][state[q].test_file] = wc.files[state[q].test_file]

\* the number of entries of one kind and name in the log of run r
Count(r, kind, name) == Cardinality(Idx(r, kind, name))

\* C17: every run comes to its end, completed or aborted; no stage is
\* entered twice; and a run that completed after the Checker set exists_ok
\* to false has appended to the source file once, appended to the test
\* file once, attempted the commit once and asked the model for the review
\* once.
C17_TerminatesOnce ==
    /\ <>(\A r \in runs : pc[r] \in {"__end__", "aborted"})
    /\ [](\A r \in runs :
            LET st == StageTrace(r)
            IN  /\ \A i \in 1..Len(st) : \A j \in 1..Len(st) : st[i] = st[j] => i = j
                /\ /\ pc[r] = "__end__"
                   /\ \E i \in Idx(r, "exists_ok", "check_existing_code") : log[r][i].rc = 0
                   => /\ Count(r, "append", "add_function") = 1
                      /\ Count(r, "append", "add_tests") = 1
                      /\ Count(r, "git", "commit") = 1
                      /\ Count(r, "model", "review_and_pr") = 1)

\* a run completed with exists_ok false and none of its calls failed but
\* the checkout of the branch that did not exist yet
C17_Witness ==
    \E r \in runs :
        /\ pc[r] = "__end__"
        /\ \E i \in Idx(r, "exists_ok", "check_existing_code") : log[r][i].rc = 0
        /\ \A i \in 1..Len(log[r]) :
              log[r][i].rc # 0 => log[r][i].kind = "git" /\ log[r][i].name = "checkout"
        /\ Idx(r, "gh", "pr merge") # {}

====
